---- MODULE Spec2Model ----
(***************************************************************************)
(* PyInstaller GUI Builder (src/main.py): the import scanner               *)
(* parse_imports, the icon normalizer convert_to_ico, and the build        *)
(* handler build_exe that assembles the pyinstaller command on a           *)
(* background thread and runs it.                                          *)
(*                                                                         *)
(* Text is modelled as sequences of one-character strings, so that strip,  *)
(* splitext, dirname, abspath and the import pattern are computed on the   *)
(* characters as Python computes them.                                     *)
(***************************************************************************)
EXTENDS Naturals, Sequences, FiniteSets, TLC

VARIABLES
    file_input,     \* self.file_input.text()
    option_cbs,     \* self.option_cbs: flag -> isChecked()
    name_input,     \* self.name_input.text()
    icon_input,     \* self.icon_input.text()
    adddata_input,  \* self.adddata_input.text()
    dist_input,     \* self.dist_input.text()
    module_cbs,     \* self.module_cbs: sequence of [text, checked]
    threads,        \* the threading.Thread(target=self.build_exe) started so far
    edits,          \* number of foreground edits made (bounded by MaxEdits)
    scan_file,      \* the file handed to parse_imports
    scan_out,       \* what parse_imports returned and printed
    browsing        \* where the GUI thread stands in browse_file ("idle": outside)

vars == <<file_input, option_cbs, name_input, icon_input, adddata_input,
          dist_input, module_cbs, threads, edits,
          scan_file, scan_out, browsing>>

gui == <<file_input, option_cbs, name_input, icon_input, adddata_input,
         dist_input, module_cbs>>

(***************************************************************************)
(* Bounds of the model.                                                    *)
(***************************************************************************)
MaxFileLines == 2
MaxBuilds == 2
MaxEdits == 3
MaxOutputLines == 1

(***************************************************************************)
(* Characters and text.                                                    *)
(***************************************************************************)
\* The characters of the model in increasing code point order.
CharOrder ==
    <<"\t", "\n", " ", ",", "-", ".", "/", "1", ";", "=", "C", "I", "O", "_",
      "a", "b", "c", "d", "e", "f", "g", "h", "i", "l", "m", "n", "o",
      "p", "r", "s", "t", "x", "y", "z">>

Ord(c) == CHOOSE i \in 1..Len(CharOrder) : CharOrder[i] = c

\* str.isspace for the characters of the model (str.strip(), regex \s).
IsSpace(c) == c \in {" ", "\t", "\n"}

\* regex [\w\.]
IsWordOrDot(c) ==
    c \in {".", "1", "C", "I", "O", "_", "a", "b", "c", "d", "e", "f", "g",
           "h", "i", "l", "m", "n", "o", "p", "r", "s", "t", "x", "y", "z"}

\* str.lower on one character.
LowerChar(c) ==
    CASE c = "C" -> "c"
      [] c = "I" -> "i"
      [] c = "O" -> "o"
      [] OTHER -> c

lower(s) == [i \in 1..Len(s) |-> LowerChar(s[i])]

\* F applied to the value of v: v is evaluated once, before F uses it.
Eval(v, F(_)) == CHOOSE r \in {F(x) : x \in {v}} : TRUE

Min(S) == CHOOSE x \in S : \A y \in S : x <= y
Max(S) == CHOOSE x \in S : \A y \in S : y <= x

\* The positions of s that hold no white space.
NonSpace(s) == {i \in 1..Len(s) : ~IsSpace(s[i])}

\* str.lstrip(): from the first character that is no white space.
lstrip(s) ==
    IF NonSpace(s) = {} THEN <<>> ELSE SubSeq(s, Min(NonSpace(s)), Len(s))

\* str.rstrip(): up to the last character that is no white space.
rstrip(s) ==
    IF NonSpace(s) = {} THEN <<>> ELSE SubSeq(s, 1, Max(NonSpace(s)))

\* str.strip()
strip(s) ==
    IF NonSpace(s) = {} THEN <<>>
    ELSE SubSeq(s, Min(NonSpace(s)), Max(NonSpace(s)))

\* The positions of s that hold the character c.
Occurrences(s, c) == {i \in 1..Len(s) : s[i] = c}

\* str.rfind(c), shifted to the 1-based positions of a sequence: 0 when absent.
rfind(s, c) == IF Occurrences(s, c) = {} THEN 0 ELSE Max(Occurrences(s, c))

\* str.find(c), 1-based: 0 when absent.
find(s, c) == IF Occurrences(s, c) = {} THEN 0 ELSE Min(Occurrences(s, c))

StartsWith(s, p) == Len(s) >= Len(p) /\ SubSeq(s, 1, Len(p)) = p

Drop(s, n) == SubSeq(s, n + 1, Len(s))

\* str.split(sep) for a one-character separator: the k-th part lies between
\* the (k-1)-th and the k-th occurrence of sep.
split(s, sep) ==
    LET cuts == Occurrences(s, sep) \cup {0, Len(s) + 1}
        Nth(k) == CHOOSE p \in cuts : Cardinality({q \in cuts : q < p}) = k
    IN  [k \in 1..(Cardinality(cuts) - 1) |-> SubSeq(s, Nth(k - 1) + 1, Nth(k) - 1)]

\* sep.join(parts)
RECURSIVE join(_, _)
join(parts, sep) ==
    IF parts = <<>> THEN <<>>
    ELSE IF Len(parts) = 1 THEN parts[1]
    ELSE parts[1] \o sep \o join(Tail(parts), sep)

\* Python's < on str: lexicographic by code point, a proper prefix is smaller.
RECURSIVE LexLess(_, _)
LexLess(a, b) ==
    IF b = <<>> THEN FALSE
    ELSE IF a = <<>> THEN TRUE
    ELSE IF Head(a) = Head(b) THEN LexLess(Tail(a), Tail(b))
    ELSE Ord(Head(a)) < Ord(Head(b))

Range(s) == {s[i] : i \in 1..Len(s)}

(***************************************************************************)
(* parse_imports (src/main.py 25-36).                                      *)
(***************************************************************************)
KwImport == <<"i", "m", "p", "o", "r", "t">>
KwFrom == <<"f", "r", "o", "m">>

NoMatch == [matched |-> FALSE, group |-> <<>>]

\* The longest prefix of s made of [\w\.] characters.
RECURSIVE WordRun(_)
WordRun(s) ==
    IF s # <<>> /\ IsWordOrDot(Head(s))
    THEN <<Head(s)>> \o WordRun(Tail(s))
    ELSE <<>>

\* import_pattern.match(line) for r'^\s*(?:import|from)\s+([\w\.]+)'.
ImportPatternMatch(line) ==
    LET s1 == lstrip(line)
        afterKw ==
            IF StartsWith(s1, KwImport) THEN <<TRUE, Drop(s1, Len(KwImport))>>
            ELSE IF StartsWith(s1, KwFrom) THEN <<TRUE, Drop(s1, Len(KwFrom))>>
            ELSE <<FALSE, <<>>>>
        rest == afterKw[2]
        grp == WordRun(lstrip(rest))
    IN  IF afterKw[1] /\ rest # <<>> /\ IsSpace(Head(rest)) /\ grp # <<>>
        THEN [matched |-> TRUE, group |-> grp]
        ELSE NoMatch

\* match.group(1).split('.')[0]
FirstSegment(grp) == split(grp, ".")[1]

\* sorted(modules): the elements of a set of strings in increasing order.
RECURSIVE SortedSeq(_)
SortedSeq(S) ==
    IF S = {} THEN <<>>
    ELSE LET m == CHOOSE x \in S : \A y \in S \ {x} : LexLess(x, y)
         IN  <<m>> \o SortedSeq(S \ {m})

\* The lines the loop `for line in f` gets before the file ends or the decoder
\* raises. f.bad = 0: every line decodes; f.bad = k: fetching the k-th line
\* raises UnicodeDecodeError (the text layer decodes the file in blocks, so
\* the lines of earlier blocks have been handed out by then).
LinesRead(f) ==
    IF f.bad = 0 THEN f.lines ELSE SubSeq(f.lines, 1, f.bad - 1)

\* Whether open() or the iteration raises.
ReadRaises(f) == ~f.readable \/ f.bad # 0

\* The set `modules` when the try block is left.
ModulesAdded(f) ==
    IF ~f.readable THEN {}
    ELSE {FirstSegment(ImportPatternMatch(LinesRead(f)[i]).group) :
            i \in {j \in 1..Len(LinesRead(f)) :
                      ImportPatternMatch(LinesRead(f)[j]).matched}}

parse_imports(f) ==
    [modules |-> SortedSeq(ModulesAdded(f)), printed_error |-> ReadRaises(f)]

(***************************************************************************)
(* Source lines and files the scanner is run on.                           *)
(***************************************************************************)
Sp == <<" ">>
W_os == <<"o", "s">>
W_foo == <<"f", "o", "o">>
W_bar == <<"b", "a", "r">>
W_baz == <<"b", "a", "z">>
W_path == <<"p", "a", "t", "h">>
Dot == <<".">>
Nl == <<"\n">>

L_import_os == KwImport \o Sp \o W_os \o Nl
L_from_os == KwFrom \o Sp \o W_os \o Sp \o KwImport \o Sp \o W_path \o Nl
L_import_foo_bar == Sp \o Sp \o KwImport \o Sp \o W_foo \o Dot \o W_bar \o Nl
L_from_foo_bar ==
    KwFrom \o Sp \o W_foo \o Dot \o W_bar \o Sp \o KwImport \o Sp \o W_baz \o Nl
L_import_bar == KwImport \o <<"\t">> \o W_bar \o Nl
L_assign == <<"x", " ", "=", " ", "1", "\n">>
L_importos == KwImport \o W_os \o Nl
L_from_dot == KwFrom \o Sp \o Dot \o Sp \o KwImport \o Sp \o W_os \o Nl

SourceLines ==
    {L_import_os, L_from_os, L_import_foo_bar, L_from_foo_bar, L_import_bar,
     L_assign, L_importos, L_from_dot}

RECURSIVE SeqsUpTo(_, _)
SeqsUpTo(S, n) ==
    IF n = 0 THEN {<<>>}
    ELSE LET shorter == SeqsUpTo(S, n - 1)
         IN  shorter \cup {Append(s, x) : s \in {t \in shorter : Len(t) = n - 1}, x \in S}

SourceFiles ==
    UNION {{[readable |-> r, lines |-> ls, bad |-> b] :
                r \in BOOLEAN, b \in 0..Len(ls)} :
           ls \in SeqsUpTo(SourceLines, MaxFileLines)}

(***************************************************************************)
(* os.path (posixpath) as build_exe and convert_to_ico use it.             *)
(***************************************************************************)
Slash == <<"/">>

\* os.getcwd(): the directory the program was started in.
Cwd == <<"/", "h">>

\* posixpath.isabs
isabs(p) == StartsWith(p, Slash)

\* posixpath.join(a, b)
pathjoin(a, b) ==
    IF isabs(b) THEN b
    ELSE IF a = <<>> \/ a[Len(a)] = "/" THEN a \o b
    ELSE a \o Slash \o b

\* The loop of posixpath.normpath over the components.
RECURSIVE NormComps(_, _, _)
NormComps(comps, new_comps, initial_slashes) ==
    IF comps = <<>> THEN new_comps
    ELSE LET comp == Head(comps)
             DotDot == <<".", ".">>
         IN  IF comp = <<>> \/ comp = Dot
             THEN NormComps(Tail(comps), new_comps, initial_slashes)
             ELSE IF comp # DotDot
                     \/ (initial_slashes = 0 /\ new_comps = <<>>)
                     \/ (new_comps # <<>> /\ new_comps[Len(new_comps)] = DotDot)
             THEN NormComps(Tail(comps), Append(new_comps, comp), initial_slashes)
             ELSE IF new_comps # <<>>
             THEN NormComps(Tail(comps), SubSeq(new_comps, 1, Len(new_comps) - 1),
                            initial_slashes)
             ELSE NormComps(Tail(comps), new_comps, initial_slashes)

\* posixpath.normpath
normpath(p) ==
    IF p = <<>> THEN Dot
    ELSE LET initial_slashes ==
                 IF ~StartsWith(p, Slash) THEN 0
                 ELSE IF StartsWith(p, Slash \o Slash)
                         /\ ~StartsWith(p, Slash \o Slash \o Slash) THEN 2
                 ELSE 1
             Comps(comps) == NormComps(comps, <<>>, initial_slashes)
             Joined(new_comps) == join(new_comps, Slash)
             Prefixed(body) ==
                 LET res == IF initial_slashes = 2 THEN Slash \o Slash \o body
                            ELSE IF initial_slashes = 1 THEN Slash \o body
                            ELSE body
                 IN  IF res = <<>> THEN Dot ELSE res
         IN  Eval(Eval(Eval(split(p, "/"), Comps), Joined), Prefixed)

\* posixpath.abspath
abspath(p) == Eval(IF isabs(p) THEN p ELSE pathjoin(Cwd, p), normpath)

\* posixpath.dirname
dirname(p) ==
    LET head == SubSeq(p, 1, rfind(p, "/"))
        other == {i \in 1..Len(head) : head[i] # "/"}
    IN  IF other # {} THEN SubSeq(head, 1, Max(other)) ELSE head

\* os.path.splitext(p)[1] (genericpath._splitext): the extension starts at the
\* last dot of the last component, leading dots of that component apart.
splitext_ext(p) ==
    LET sepIndex == rfind(p, "/")
        dotIndex == rfind(p, ".")
    IN  IF dotIndex > sepIndex
           /\ \E k \in (sepIndex + 1)..(dotIndex - 1) : p[k] # "."
        THEN SubSeq(p, dotIndex, Len(p))
        ELSE <<>>

(***************************************************************************)
(* Tokens of the command.                                                  *)
(***************************************************************************)
\* A token is the string `lit` followed by the characters `text`: lit is a
\* string literal of the source, text a value the program read or computed.
Lit(l) == [lit |-> l, text |-> <<>>]
Text(t) == [lit |-> "", text |-> t]

Tool == Lit("pyinstaller")
OptOnefile == Lit("--onefile")
OptOnedir == Lit("--onedir")
OptNoconfirm == Lit("--noconfirm")
OptClean == Lit("--clean")
OptStrip == Lit("--strip")
OptNoconsole == Lit("--noconsole")
OptName == Lit("--name")
OptIcon == Lit("--icon")
OptAddData == Lit("--add-data")
OptDistpath == Lit("--distpath")

\* f"--hidden-import={module}"
HiddenImport(module) == [lit |-> "--hidden-import=", text |-> module]

\* A variant that declares --noconsole first.
OPTION_DESCRIPTIONS_reordered ==
    <<OptNoconsole, OptOnefile, OptOnedir, OptNoconfirm, OptClean, OptStrip>>

\* The keys of OPTION_DESCRIPTIONS in declaration order, which is the order
\* init_ui inserts them into self.option_cbs and build_exe iterates them.
OPTION_DESCRIPTIONS ==
    <<OptOnefile, OptOnedir, OptNoconfirm, OptClean, OptStrip, OptNoconsole>>

(***************************************************************************)
(* convert_to_ico (src/main.py 38-50).                                     *)
(***************************************************************************)
ExtIco == <<".", "i", "c", "o">>

\* os.path.join(tempfile.gettempdir(), "temp_icon.ico")
TempIcoPath ==
    <<"/", "t", "m", "p", "/", "t", "e", "m", "p", "_", "i", "c", "o", "n",
      ".", "i", "c", "o">>

P_png == <<"p", ".", "p", "n", "g">>
P_bmp == <<"b", ".", "b", "m", "p">>
P_ICO == <<"i", ".", "I", "C", "O">>

\* The image files Image.open and img.save succeed on; every other path
\* (a missing or damaged file, the empty path) raises.
ConvertibleImages == {P_png}

NoIcon == <<"None">>

\* The value convert_to_ico returns (NoIcon for None) and whether it posted
\* the callable of line 49.
convert_to_ico(image_path) ==
    IF lower(splitext_ext(image_path)) = ExtIco
    THEN [icon_path |-> image_path, failed |-> FALSE]
    ELSE IF image_path \in ConvertibleImages
    THEN [icon_path |-> TempIcoPath, failed |-> FALSE]
    ELSE [icon_path |-> NoIcon, failed |-> TRUE]

(***************************************************************************)
(* The callables posted with QTimer.singleShot, by what running them shows. *)
(***************************************************************************)
MsgSelectScript == [kind |-> "warning", text |-> "select_script", exc |-> "none"]
MsgIconFailed == [kind |-> "critical", text |-> "icon_failed", exc |-> "image"]
MsgBuildDone == [kind |-> "information", text |-> "build_done", exc |-> "none"]
\* e: the exception shown in the box, named by the statement that raised it.
MsgBuildFailed(e) == [kind |-> "critical", text |-> "build_failed", exc |-> e]

\* The callable raised NameError while it built its text: no box is shown.
NameErrorRaised == [kind |-> "none", text |-> "name_error", exc |-> "NameError"]

\* The callables of lines 49 and 267 read the name e of the enclosing except
\* clause, which is unbound once the worker has left the clause. Run by the
\* GUI thread before that, the callable shows the box; run after it, it
\* raises NameError.
PostedInExcept(box) == {box, NameErrorRaised}

(***************************************************************************)
(* The state after PyInstallerGUI.__init__ (src/main.py 53-188).           *)
(***************************************************************************)
NoFile == [readable |-> FALSE, lines |-> <<>>, bad |-> 0]
NoScan == [modules |-> <<>>, printed_error |-> FALSE, done |-> FALSE]

Init ==
    /\ file_input = <<>>
    /\ option_cbs = [o \in Range(OPTION_DESCRIPTIONS) |-> FALSE]
    /\ name_input = <<>>
    /\ icon_input = <<>>
    /\ adddata_input = <<>>
    /\ dist_input = <<>>
    /\ module_cbs = <<>>
    /\ threads = <<>>
    /\ edits = 0
    /\ scan_file = NoFile
    /\ scan_out = NoScan
    /\ browsing = "idle"

(***************************************************************************)
(* build_exe_threaded and build_exe (src/main.py 219-267).                 *)
(***************************************************************************)
\* A thread just started: the locals of build_exe are not yet assigned.
NewThread ==
    [pc |-> "start", script |-> <<>>, cmd |-> <<>>, k |-> 0,
     replaced |-> FALSE, old_cbs |-> <<>>, proc |-> "none",
     streamed |-> 0, returncode |-> 0, notes |-> <<>>]

\* threading.Thread(target=self.build_exe, daemon=True).start(), run by the
\* GUI thread when the build button is clicked.
build_exe_threaded ==
    /\ browsing = "idle"
    /\ Len(threads) < MaxBuilds
    /\ threads' = Append(threads, NewThread)
    /\ UNCHANGED <<gui, edits, scan_file, scan_out, browsing>>

Update(i, t) ==
    /\ threads' = [threads EXCEPT ![i] = t]
    /\ UNCHANGED <<gui, edits, scan_file, scan_out, browsing>>

At(i, pc) == i \in 1..Len(threads) /\ threads[i].pc = pc

\* A variant without the test of line 224.
ReadScript_NoCheck(i) ==
    /\ At(i, "start")
    /\ Update(i, [threads[i] EXCEPT !.pc = "flags", !.script = file_input,
                                    !.cmd = <<Tool, Text(file_input)>>, !.k = 1])

\* Lines 223-228: read the script field; refuse an empty one.
ReadScript(i) ==
    /\ At(i, "start")
    /\ LET t == threads[i]
           script == file_input
       IN  IF script = <<>>
           THEN Update(i, [t EXCEPT !.pc = "done",
                                    !.notes = Append(@, MsgSelectScript)])
           ELSE Update(i, [t EXCEPT !.pc = "flags", !.script = script,
                                    !.cmd = <<Tool, Text(script)>>, !.k = 1])

\* Lines 232-233 for the k-th entry of self.option_cbs, which was filled in
\* the order of OPTION_DESCRIPTIONS (lines 93-98): the tokens appended.
CheckedOption(cbs, k) ==
    IF cbs[OPTION_DESCRIPTIONS[k]] THEN <<OPTION_DESCRIPTIONS[k]>> ELSE <<>>

\* One iteration of the loop of lines 231-233: cb.isChecked() is read for
\* the k-th flag; after the last flag the loop is left.
AppendFlag(i) ==
    /\ At(i, "flags")
    /\ LET t == threads[i]
       IN  Update(i, [t EXCEPT
               !.cmd = @ \o CheckedOption(option_cbs, t.k),
               !.k = IF t.k = Len(OPTION_DESCRIPTIONS) THEN 0 ELSE @ + 1,
               !.pc = IF t.k = Len(OPTION_DESCRIPTIONS) THEN "name_check" ELSE @])

\* Line 236: the test reads the name field.
NameCheck(i) ==
    /\ At(i, "name_check")
    /\ Update(i, [threads[i] EXCEPT
            !.pc = IF strip(name_input) # <<>> THEN "name_append" ELSE "icon_check"])

\* Line 237: the field is read again for the value.
NameAppend(i) ==
    /\ At(i, "name_append")
    /\ Update(i, [threads[i] EXCEPT !.pc = "icon_check",
                                    !.cmd = @ \o <<OptName, Text(strip(name_input))>>])

\* Line 239.
IconCheck(i) ==
    /\ At(i, "icon_check")
    /\ Update(i, [threads[i] EXCEPT
            !.pc = IF strip(icon_input) # <<>> THEN "icon_convert" ELSE "adddata_check"])

\* Lines 240-242: the field is read again and converted.
IconConvert(i) ==
    /\ At(i, "icon_convert")
    /\ LET r == Eval(strip(icon_input), convert_to_ico)
       IN  \E note \in PostedInExcept(MsgIconFailed) :
             Update(i, [threads[i] EXCEPT
               !.pc = "adddata_check",
               !.cmd = IF r.icon_path # NoIcon THEN @ \o <<OptIcon, Text(r.icon_path)>> ELSE @,
               !.notes = IF r.failed THEN Append(@, note) ELSE @])

\* Line 244.
AddDataCheck(i) ==
    /\ At(i, "adddata_check")
    /\ Update(i, [threads[i] EXCEPT
            !.pc = IF strip(adddata_input) # <<>> THEN "adddata_append" ELSE "dist_check"])

\* Line 245.
AddDataAppend(i) ==
    /\ At(i, "adddata_append")
    /\ Update(i, [threads[i] EXCEPT !.pc = "dist_check",
                                    !.cmd = @ \o <<OptAddData, Text(strip(adddata_input))>>])

\* A variant that leaves out os.path.abspath.
DefaultDistpath_NoAbspath(script) == dirname(script)

\* Lines 252-253: the default output directory.
DefaultDistpath(script) == Eval(abspath(script), dirname)

\* Lines 248, 250-253: the test reads the output field; the else branch uses
\* the script's directory.
DistCheck(i) ==
    /\ At(i, "dist_check")
    /\ LET t == threads[i]
       IN  IF strip(dist_input) # <<>>
           THEN Update(i, [t EXCEPT !.pc = "dist_append"])
           ELSE Update(i, [t EXCEPT !.pc = "hidden",
                                    !.cmd = @ \o <<OptDistpath, Text(DefaultDistpath(t.script))>>])

\* Line 249.
DistAppend(i) ==
    /\ At(i, "dist_append")
    /\ Update(i, [threads[i] EXCEPT !.pc = "hidden",
                                    !.cmd = @ \o <<OptDistpath, Text(strip(dist_input))>>])

\* Line 256: the loop takes the list object that self.module_cbs names.
HiddenStart(i) ==
    /\ At(i, "hidden")
    /\ Update(i, [threads[i] EXCEPT !.pc = "hidden_loop", !.k = 1])

\* The list object the loop of thread t iterates: self.module_cbs, or the
\* list that load_module_checkboxes has replaced since the loop started.
IteratedBoxes(t) == IF t.replaced THEN t.old_cbs ELSE module_cbs

\* Lines 257-258 for the box cb: the tokens appended.
HiddenImports(cb) == IF cb.checked THEN <<HiddenImport(cb.text)>> ELSE <<>>

\* One iteration of the loop of lines 256-258: the next box of the list is
\* taken and its state read; when the list has no further box the loop is
\* left.
AppendHiddenImport(i) ==
    /\ At(i, "hidden_loop")
    /\ LET t == threads[i]
           cbs == IteratedBoxes(t)
       IN  IF t.k > Len(cbs)
           THEN Update(i, [t EXCEPT !.pc = "popen", !.k = 0,
                                    !.replaced = FALSE, !.old_cbs = <<>>])
           ELSE Update(i, [t EXCEPT !.cmd = @ \o HiddenImports(cbs[t.k]),
                                    !.k = @ + 1])

\* Line 261, the process is spawned.
PopenStarts(i) ==
    /\ At(i, "popen")
    /\ Update(i, [threads[i] EXCEPT !.pc = "streaming", !.proc = "running"])

\* Line 261 raises (pyinstaller is not on the PATH, or cannot be executed);
\* lines 266-267 post the callable of the failure box.
PopenRaises(i) ==
    /\ At(i, "popen")
    /\ \E note \in PostedInExcept(MsgBuildFailed("subprocess.Popen")) :
          Update(i, [threads[i] EXCEPT !.pc = "done", !.notes = Append(@, note)])

\* Lines 262-263: one line of the merged output is printed.
StreamLine(i) ==
    /\ At(i, "streaming")
    /\ threads[i].streamed < MaxOutputLines
    /\ Update(i, [threads[i] EXCEPT !.streamed = @ + 1])

\* The statements of the loop of lines 262-263 that raise: reading the next
\* line (the output does not decode) and print (the line does not encode
\* for the program's stdout, or stdout is closed or broken).
StreamErrors == {"process.stdout", "print"}

\* Line 262 or 263 raises. Lines 266-267 post the callable of the failure
\* box; the process is never waited for.
StreamRaises(i, e) ==
    /\ At(i, "streaming")
    /\ \E note \in PostedInExcept(MsgBuildFailed(e)) :
          Update(i, [threads[i] EXCEPT !.pc = "done", !.notes = Append(@, note)])

\* Line 262: the output ends.
StreamEnds(i) ==
    /\ At(i, "streaming")
    /\ Update(i, [threads[i] EXCEPT !.pc = "wait"])

\* The exit codes of the packaging process.
ExitCodes == {0, 1}

\* Lines 264-265: process.wait() returns with the process's exit code, and
\* the completion message is posted.
WaitReturns(i, code) ==
    /\ At(i, "wait")
    /\ Update(i, [threads[i] EXCEPT !.pc = "done", !.proc = "exited",
                                    !.returncode = code,
                                    !.notes = Append(@, MsgBuildDone)])

(***************************************************************************)
(* The foreground thread: the user edits the fields (src/main.py 80-217).  *)
(***************************************************************************)
S_tmp_app == <<"/", "t", "m", "p", "/", "a", "p", "p", ".", "p", "y">>
S_app == <<"a", "p", "p", ".", "p", "y">>
S_dots == <<"/", "t", "m", "p", "/", "x", "/", ".", ".", "/", "a", ".", "p", "y">>
D_tmp == <<"/", "t", "m", "p">>

Scripts == {S_tmp_app, S_app, S_dots}
NameValues == {<<>>, <<" ", "a", " ">>}
IconValues == {<<>>, P_ICO, P_png, P_bmp}
AddDataValues == {<<>>, <<"a", ";", "b">>}
DistValues == {<<>>, <<" ", " ">>, <<" ", "/", "o", " ">>}

\* Lines 214-217: a fresh, unchecked box for each module.
load_module_checkboxes(modules) ==
    [k \in 1..Len(modules) |-> [text |-> modules[k], checked |-> FALSE]]

\* browse_file, lines 191-193: the dialog returns `path`, whose content is
\* the file f, and the script field is set.
browse_file(path, f) ==
    /\ path # <<>>
    /\ file_input' = path
    /\ scan_file' = f
    /\ scan_out' = NoScan
    /\ browsing' = "parse"
    /\ UNCHANGED <<option_cbs, name_input, icon_input, adddata_input, dist_input,
                   module_cbs, threads>>

\* browse_file, line 194: parse_imports has read the file and returns.
BrowseParsed ==
    /\ browsing = "parse"
    /\ scan_out' = [modules |-> parse_imports(scan_file).modules,
                    printed_error |-> parse_imports(scan_file).printed_error,
                    done |-> TRUE]
    /\ browsing' = "load"
    /\ UNCHANGED <<gui, threads, scan_file>>

\* load_module_checkboxes, lines 208-211: the boxes leave the window and
\* self.module_cbs names a new, empty list. A build thread inside the loop
\* of line 256 goes on with the list object it took.
LoadRebind ==
    /\ browsing = "load"
    /\ module_cbs' = <<>>
    /\ threads' = [i \in 1..Len(threads) |->
                     IF threads[i].pc = "hidden_loop" /\ ~threads[i].replaced
                     THEN [threads[i] EXCEPT !.replaced = TRUE, !.old_cbs = module_cbs]
                     ELSE threads[i]]
    /\ browsing' = IF scan_out.modules = <<>> THEN "idle" ELSE "append"
    /\ UNCHANGED <<file_input, option_cbs, name_input, icon_input, adddata_input,
                   dist_input, scan_file, scan_out>>

\* load_module_checkboxes, lines 213-217: one more box is appended; after
\* the last module the handler returns.
LoadAppend ==
    /\ browsing = "append"
    /\ module_cbs' = module_cbs \o
                        load_module_checkboxes(<<scan_out.modules[Len(module_cbs) + 1]>>)
    /\ browsing' = IF Len(module_cbs) + 1 = Len(scan_out.modules)
                   THEN "idle" ELSE "append"
    /\ UNCHANGED <<file_input, option_cbs, name_input, icon_input, adddata_input,
                   dist_input, threads, scan_file, scan_out>>

\* The steps of browse_file after the script field is set.
BrowseStep == BrowseParsed \/ LoadRebind \/ LoadAppend

\* The user types into (or clears) the script field (line 80).
SetFileInput(v) ==
    /\ file_input' = v
    /\ UNCHANGED <<option_cbs, name_input, icon_input, adddata_input, dist_input,
                   module_cbs, threads, scan_file, scan_out, browsing>>

\* The user toggles the check box of a flag (lines 94-98).
ToggleOption(o) ==
    /\ option_cbs' = [option_cbs EXCEPT ![o] = ~@]
    /\ UNCHANGED <<file_input, name_input, icon_input, adddata_input, dist_input,
                   module_cbs, threads, scan_file, scan_out, browsing>>

\* The user edits the --name field (line 111).
SetNameInput(v) ==
    /\ name_input' = v
    /\ UNCHANGED <<file_input, option_cbs, icon_input, adddata_input, dist_input,
                   module_cbs, threads, scan_file, scan_out, browsing>>

\* browse_icon (lines 197-200), or the user edits the --icon field (line 123).
SetIconInput(v) ==
    /\ icon_input' = v
    /\ UNCHANGED <<file_input, option_cbs, name_input, adddata_input, dist_input,
                   module_cbs, threads, scan_file, scan_out, browsing>>

\* The user edits the --add-data field (line 140).
SetAddDataInput(v) ==
    /\ adddata_input' = v
    /\ UNCHANGED <<file_input, option_cbs, name_input, icon_input, dist_input,
                   module_cbs, threads, scan_file, scan_out, browsing>>

\* browse_dist (lines 202-205), or the user edits the --distpath field (line 152).
SetDistInput(v) ==
    /\ dist_input' = v
    /\ UNCHANGED <<file_input, option_cbs, name_input, icon_input, adddata_input,
                   module_cbs, threads, scan_file, scan_out, browsing>>

\* The user toggles the check box of a detected module (lines 213-217).
ToggleModule(k) ==
    /\ k \in 1..Len(module_cbs)
    /\ module_cbs' = [module_cbs EXCEPT ![k].checked = ~@]
    /\ UNCHANGED <<file_input, option_cbs, name_input, icon_input, adddata_input,
                   dist_input, threads, scan_file, scan_out, browsing>>

\* The files the user browses to in the specifications of the build.
F_none == [readable |-> TRUE, lines |-> <<>>, bad |-> 0]
F_two == [readable |-> TRUE, lines |-> <<L_import_os, L_import_foo_bar>>, bad |-> 0]
BrowsedFiles == {F_none, F_two}

(***************************************************************************)
(* Spec: the window with the foreground thread and the build threads       *)
(* running concurrently.                                                   *)
(***************************************************************************)
\* An edit of a field changes its text.
Foreground ==
    \/ \E v \in {<<>>, S_tmp_app} : v # file_input /\ SetFileInput(v)
    \/ browse_file(S_app, F_two)
    \/ \E o \in {OptOnefile, OptNoconsole} : ToggleOption(o)
    \/ \E v \in {<<>>, <<" ", "a", " ">>} : v # name_input /\ SetNameInput(v)
    \/ \E v \in {<<>>, P_bmp} : v # icon_input /\ SetIconInput(v)
    \/ \E v \in AddDataValues : v # adddata_input /\ SetAddDataInput(v)
    \/ \E v \in {<<>>, <<" ", "/", "o", " ">>} : v # dist_input /\ SetDistInput(v)
    \/ \E k \in 1..2 : ToggleModule(k)

\* The steps of build_exe that assemble the command (lines 223-258).
BuilderStep(i) ==
    \/ ReadScript(i)
    \/ AppendFlag(i)
    \/ NameCheck(i)
    \/ NameAppend(i)
    \/ IconCheck(i)
    \/ IconConvert(i)
    \/ AddDataCheck(i)
    \/ AddDataAppend(i)
    \/ DistCheck(i)
    \/ DistAppend(i)
    \/ HiddenStart(i)
    \/ AppendHiddenImport(i)

\* The steps of build_exe that run the command (lines 260-267).
RunnerStep(i) ==
    \/ PopenStarts(i)
    \/ PopenRaises(i)
    \/ StreamLine(i)
    \/ \E e \in StreamErrors : StreamRaises(i, e)
    \/ StreamEnds(i)
    \/ \E code \in ExitCodes : WaitReturns(i, code)

ThreadStep(i) == BuilderStep(i) \/ RunnerStep(i)

\* One edit of the user, counted against the bound of the model.
ForegroundEdit ==
    /\ browsing = "idle"
    /\ edits < MaxEdits
    /\ edits' = edits + 1
    /\ Foreground

Next ==
    \/ build_exe_threaded
    \/ ForegroundEdit
    \/ BrowseStep /\ UNCHANGED edits
    \/ \E i \in 1..MaxBuilds : ThreadStep(i)

Spec == Init /\ [][Next]_vars

(***************************************************************************)
(* ScanSpec: the window as constructed, with scan_file the content of the  *)
(* script on disk; the user browses to it, which runs parse_imports on it  *)
(* and loads the module boxes.                                             *)
(***************************************************************************)
ScanInit ==
    /\ file_input = <<>>
    /\ option_cbs = [o \in Range(OPTION_DESCRIPTIONS) |-> FALSE]
    /\ name_input = <<>>
    /\ icon_input = <<>>
    /\ adddata_input = <<>>
    /\ dist_input = <<>>
    /\ module_cbs = <<>>
    /\ threads = <<>>
    /\ edits = 0
    /\ scan_file \in SourceFiles
    /\ scan_out = NoScan
    /\ browsing = "idle"

ScanNext ==
    /\ UNCHANGED edits
    /\ \/ browsing = "idle" /\ ~scan_out.done /\ browse_file(S_tmp_app, scan_file)
       \/ BrowseStep

ScanSpec == ScanInit /\ [][ScanNext]_vars

(***************************************************************************)
(* BuilderSpec: the command builder as a function of the selection. The    *)
(* window starts with any selection the user can have made, the selection  *)
(* is left alone, and builds are requested one after the other; each runs  *)
(* build_exe up to the spawn of the process.                               *)
(***************************************************************************)
\* The check boxes of the modules of file f with the boxes in `on` checked.
ModuleBoxes(f, on) ==
    LET boxes == load_module_checkboxes(parse_imports(f).modules)
    IN  [k \in 1..Len(boxes) |-> [boxes[k] EXCEPT !.checked = k \in on]]

\* The flag selections tried: none, every single flag, every pair, and all.
FlagSelections ==
    {S \in SUBSET Range(OPTION_DESCRIPTIONS) :
        Cardinality(S) <= 2 \/ S = Range(OPTION_DESCRIPTIONS)}

SelectionInit ==
    /\ scan_file = F_two
    /\ scan_out = [modules |-> parse_imports(F_two).modules,
                   printed_error |-> parse_imports(F_two).printed_error,
                   done |-> TRUE]
    /\ module_cbs \in {ModuleBoxes(F_two, on) : on \in {{}, {2}, {1, 2}}}
    /\ threads = <<>>
    /\ edits = 0
    /\ browsing = "idle"
    /\ file_input \in Scripts \cup {<<>>}
    /\ option_cbs \in {[o \in Range(OPTION_DESCRIPTIONS) |-> o \in S] :
                              S \in FlagSelections}
    /\ name_input \in NameValues
    /\ icon_input \in IconValues
    /\ adddata_input \in AddDataValues
    /\ dist_input \in DistValues

\* The thread is between reading the script field and spawning the process.
Building(t) == t.pc \notin {"streaming", "wait", "done"}

BuilderNext ==
    \/ (\A i \in 1..Len(threads) : ~Building(threads[i])) /\ build_exe_threaded
    \/ \E i \in 1..MaxBuilds : BuilderStep(i) \/ PopenStarts(i)

BuilderSpec == SelectionInit /\ [][BuilderNext]_vars

(***************************************************************************)
(* LiveSpec: the build runner. Builds are requested at any time, also      *)
(* while earlier ones run. Every started thread keeps being scheduled and  *)
(* the packaging process, once spawned, ends its output and exits.         *)
(***************************************************************************)
RunnerInit ==
    /\ file_input \in {<<>>, S_tmp_app}
    /\ option_cbs = [o \in Range(OPTION_DESCRIPTIONS) |-> FALSE]
    /\ \/ /\ name_input = <<>>
          /\ icon_input = <<>>
          /\ adddata_input = <<>>
          /\ dist_input = <<>>
       \/ /\ name_input = <<" ", "a", " ">>
          /\ icon_input = P_bmp
          /\ adddata_input = <<"a", ";", "b">>
          /\ dist_input = <<" ", "/", "o", " ">>
    /\ module_cbs = <<>>
    /\ threads = <<>>
    /\ edits = 0
    /\ scan_file = NoFile
    /\ scan_out = NoScan
    /\ browsing = "idle"

RunnerNext ==
    \/ build_exe_threaded
    \/ \E i \in 1..MaxBuilds : ThreadStep(i)

LiveSpec ==
    /\ RunnerInit
    /\ [][RunnerNext]_vars
    /\ \A i \in 1..MaxBuilds : WF_vars(ThreadStep(i))

(***************************************************************************)
(* Vocabulary of the properties.                                           *)
(***************************************************************************)
Threads == 1..Len(threads)

\* build_exe has assembled the whole command of thread t.
Built(t) == t.script # <<>> /\ t.pc \in {"popen", "streaming", "wait", "done"}

Positions(cmd, tok) == {k \in 1..Len(cmd) : cmd[k] = tok}

\* The messages that end a build: completion or failure.
TerminalNotes(t) ==
    SelectSeq(t.notes, LAMBDA n : n.text \in {"build_done", "build_failed"})

\* The directory that contains each script of the model.
ScriptDirectory(script) ==
    CASE script = S_tmp_app -> D_tmp
      [] script = S_app -> Cwd
      [] script = S_dots -> D_tmp

(***************************************************************************)
(* C1. Single-flight: at most one build thread is active and at most one   *)
(* packaging process runs at any time.                                     *)
(***************************************************************************)
C1_SingleFlight ==
    /\ Cardinality({i \in Threads : threads[i].pc # "done"}) <= 1
    /\ Cardinality({i \in Threads : threads[i].proc = "running"}) <= 1

(***************************************************************************)
(* C2. When the process of a build has exited, the completion message is   *)
(* posted if and only if the exit code is zero, and a non-zero exit code   *)
(* yields a failure message.                                               *)
(***************************************************************************)
C2_SuccessIffExitZero ==
    \A i \in Threads :
        threads[i].proc = "exited" =>
            /\ (MsgBuildDone \in Range(threads[i].notes)) <=> (threads[i].returncode = 0)
            /\ threads[i].returncode # 0 =>
                 \E n \in Range(threads[i].notes) : n.text = "build_failed"

(***************************************************************************)
(* C3. A build requested while the script field is empty is refused: the   *)
(* warning is posted, no command is built, no icon conversion is           *)
(* attempted and no process is spawned.                                    *)
(***************************************************************************)
C3_EmptyScriptRefused ==
    file_input = <<>> =>
        \A i \in Threads :
            /\ threads[i].pc \in {"start", "done"}
            /\ threads[i].cmd = <<>>
            /\ threads[i].proc = "none"
            /\ Range(threads[i].notes) \subseteq {MsgSelectScript}
            /\ threads[i].pc = "done" => threads[i].notes = <<MsgSelectScript>>

C3_Witness ==
    /\ file_input = <<>>
    /\ icon_input = P_bmp
    /\ \E i \in Threads : threads[i].pc = "done" /\ threads[i].notes = <<MsgSelectScript>>

(***************************************************************************)
(* C4. With a non-blank icon field: when the normalization fails the       *)
(* command holds no --icon token, the conversion error is posted and the   *)
(* build goes on to spawn the process; when it succeeds the command holds  *)
(* exactly one --icon, followed by the input path itself if its extension  *)
(* is .ico and by the converted file otherwise.                            *)
(***************************************************************************)
C4_IconOption ==
    \A i \in Threads :
        LET t == threads[i]
            ic == strip(icon_input)
            pos == Positions(t.cmd, OptIcon)
            isIco == lower(splitext_ext(ic)) = ExtIco
        IN  (Built(t) /\ ic # <<>>) =>
                IF isIco \/ ic \in ConvertibleImages
                THEN /\ Cardinality(pos) = 1
                     /\ \A k \in pos :
                           /\ k < Len(t.cmd)
                           /\ t.cmd[k + 1] = Text(IF isIco THEN ic ELSE TempIcoPath)
                     /\ MsgIconFailed \notin Range(t.notes)
                ELSE /\ pos = {}
                     /\ MsgIconFailed \in Range(t.notes)
                     /\ t.pc \in {"popen", "streaming"}

(***************************************************************************)
(* C5. A build whose process cannot be spawned ends with the launch-error  *)
(* failure, which differs from the outcome of a build whose process        *)
(* exited non-zero; no completion message is posted for it, nothing is     *)
(* streamed, its thread has ended and a later build can be requested.      *)
(* Every build that passed the script test eventually ends with exactly    *)
(* one terminal message, completion or failure.                            *)
(***************************************************************************)
\* Popen raised in thread t.
LaunchFailed(t) == t.script # <<>> /\ t.pc = "done" /\ t.proc = "none"

C5_Outcomes ==
    \A i \in Threads :
        LET t == threads[i]
        IN  /\ Len(TerminalNotes(t)) <= 1
            /\ (t.pc = "done" /\ t.script # <<>>) => Len(TerminalNotes(t)) = 1
            /\ LaunchFailed(t) =>
                  /\ TerminalNotes(t) = <<MsgBuildFailed("subprocess.Popen")>>
                  /\ MsgBuildDone \notin Range(t.notes)
                  /\ t.streamed = 0
                  /\ \A j \in Threads :
                        (threads[j].proc = "exited" /\ threads[j].returncode # 0)
                            => TerminalNotes(threads[j]) # TerminalNotes(t)
                  /\ Len(threads) < MaxBuilds => ENABLED build_exe_threaded

C5_LaunchErrorAndTermination ==
    /\ []C5_Outcomes
    /\ \A i \in 1..MaxBuilds :
          (i \in Threads /\ threads[i].script # <<>>)
              ~> (i \in Threads /\ threads[i].pc = "done"
                               /\ Len(TerminalNotes(threads[i])) = 1)

(***************************************************************************)
(* C6. Every command built for a non-empty script holds exactly one        *)
(* --distpath pair: its value is the trimmed output field when that is     *)
(* non-blank and the directory containing the script otherwise; the        *)
(* script /tmp/app.py with no option gives                                 *)
(* [pyinstaller, /tmp/app.py, --distpath, /tmp].                           *)
(***************************************************************************)
C6_Distpath ==
    \A i \in Threads :
        LET t == threads[i]
            pos == Positions(t.cmd, OptDistpath)
        IN  Built(t) =>
                /\ Cardinality(pos) = 1
                /\ \A k \in pos :
                      /\ k < Len(t.cmd)
                      /\ t.cmd[k + 1] =
                            Text(IF strip(dist_input) # <<>> THEN strip(dist_input)
                                 ELSE ScriptDirectory(t.script))
                /\ ( /\ t.script = S_tmp_app
                     /\ \A o \in Range(OPTION_DESCRIPTIONS) : ~option_cbs[o]
                     /\ strip(name_input) = <<>> /\ strip(icon_input) = <<>>
                     /\ strip(adddata_input) = <<>> /\ strip(dist_input) = <<>>
                     /\ \A k \in 1..Len(module_cbs) : ~module_cbs[k].checked )
                   => t.cmd = <<Tool, Text(S_tmp_app), OptDistpath, Text(D_tmp)>>

C6_Witness ==
    \E i \in Threads :
        /\ Built(threads[i])
        /\ threads[i].script = S_app
        /\ dist_input = <<" ", " ">>
        /\ threads[i].cmd[Len(threads[i].cmd)] = Text(Cwd)

(***************************************************************************)
(* C7. The command is [tool, script], then the checked flags in the        *)
(* declaration order --onefile, --onedir, --noconfirm, --clean, --strip,   *)
(* --noconsole, then the --name pair, the --icon pair, the --add-data      *)
(* pair, the --distpath pair and one --hidden-import=<module> token per    *)
(* checked module in display order; builds from the same selection give    *)
(* the same command.                                                       *)
(***************************************************************************)
ExpectedCommand ==
    LET Flag(o) == IF option_cbs[o] THEN <<o>> ELSE <<>>
        Pair(marker, value) == IF value # <<>> THEN <<marker, Text(value)>> ELSE <<>>
        ic == strip(icon_input)
        icon == IF ic = <<>> THEN <<>>
                ELSE IF lower(splitext_ext(ic)) = ExtIco THEN <<OptIcon, Text(ic)>>
                ELSE IF ic \in ConvertibleImages THEN <<OptIcon, Text(TempIcoPath)>>
                ELSE <<>>
        dist == IF strip(dist_input) # <<>> THEN strip(dist_input)
                ELSE ScriptDirectory(file_input)
        Hidden(k) == IF k <= Len(module_cbs) /\ module_cbs[k].checked
                     THEN <<HiddenImport(module_cbs[k].text)>> ELSE <<>>
    IN  <<Tool, Text(file_input)>>
        \o Flag(OptOnefile) \o Flag(OptOnedir) \o Flag(OptNoconfirm)
        \o Flag(OptClean) \o Flag(OptStrip) \o Flag(OptNoconsole)
        \o Pair(OptName, strip(name_input))
        \o icon
        \o Pair(OptAddData, strip(adddata_input))
        \o <<OptDistpath, Text(dist)>>
        \o Hidden(1) \o Hidden(2)

C7_CommandOrder ==
    /\ \A i \in Threads : Built(threads[i]) => threads[i].cmd = ExpectedCommand
    /\ \A i \in Threads, j \in Threads :
          (Built(threads[i]) /\ Built(threads[j])) => threads[i].cmd = threads[j].cmd

C7_Witness ==
    /\ Len(threads) >= 2
    /\ Built(threads[1]) /\ Built(threads[2])
    /\ option_cbs[OptOnefile] /\ option_cbs[OptNoconsole]
    /\ name_input # <<>> /\ icon_input = P_png /\ adddata_input # <<>>
    /\ Len(module_cbs) = 2 /\ module_cbs[1].checked /\ module_cbs[2].checked
    /\ Len(threads[2].cmd) = 14

(***************************************************************************)
(* C8. In every command handed to the process, each of --name, --icon,     *)
(* --add-data and --distpath is followed by a value that is non-empty      *)
(* after trimming, whatever the foreground thread edits meanwhile.         *)
(***************************************************************************)
C8_ValuesNonBlank ==
    \A i \in Threads :
        threads[i].proc # "none" =>
            \A k \in 1..Len(threads[i].cmd) :
                threads[i].cmd[k] \in {OptName, OptIcon, OptAddData, OptDistpath} =>
                    /\ k < Len(threads[i].cmd)
                    /\ ~( /\ threads[i].cmd[k + 1].lit = ""
                          /\ strip(threads[i].cmd[k + 1].text) = <<>> )

(***************************************************************************)
(* C9. For a file that cannot be opened or decoded, also when the decoder  *)
(* fails after some import lines were read, parse_imports returns an       *)
(* empty list and reports the error.                                       *)
(***************************************************************************)
C9_UnreadableGivesEmpty ==
    (scan_out.done /\ (~scan_file.readable \/ scan_file.bad # 0)) =>
        /\ scan_out.modules = <<>>
        /\ scan_out.printed_error

(***************************************************************************)
(* C10. For a readable file, parse_imports returns a strictly increasing   *)
(* list holding exactly the first dotted segments of the module paths of   *)
(* the import lines, each a non-empty name without a dot.                  *)
(***************************************************************************)
C10_SortedFirstSegments ==
    (scan_out.done /\ scan_file.readable /\ scan_file.bad = 0) =>
        LET res == scan_out.modules
            imports == {k \in 1..Len(scan_file.lines) :
                           ImportPatternMatch(scan_file.lines[k]).matched}
        IN  /\ \A k \in 1..(Len(res) - 1) : LexLess(res[k], res[k + 1])
            /\ \A k \in 1..Len(res) : res[k] # <<>> /\ "." \notin Range(res[k])
            /\ Range(res) =
                 {FirstSegment(ImportPatternMatch(scan_file.lines[k]).group) : k \in imports}
            /\ ~scan_out.printed_error
====
